---- MODULE Spec2Model ----
(***************************************************************************)
(* A model of Duplicate_Checker.py: the name normaliser, the n-gram index, *)
(* the candidate lookup, the similarity score, the batch loop and the      *)
(* final sort.                                                             *)
(*                                                                         *)
(* A Python str is a sequence of one-character strings; the characters     *)
(* are ASCII (str.lower and \b are modelled on ASCII letters, digits and   *)
(* '_').  A value that is not a str is the token NonStr.                   *)
(***************************************************************************)
EXTENDS Integers, Sequences, FiniteSets, TLC

VARIABLES
    sf_list,         \* the registry column, raw values                (l.179)
    prospects_list,  \* the prospects column, raw values               (l.178)
    batchSize,       \* BATCH_SIZE of this run                          (l.18)
    pc,              \* position of __main__ in its script
    sf_tuples,       \* (name, normalized name) pairs kept             (l.200)
    ngram_index,     \* n-gram -> list of tuples                       (l.204)
    batchNo,         \* number of batches processed so far             (l.211)
    matches,         \* the collected match records                    (l.207)
    scored,          \* history: every fuzz.ratio call of process_batch
    output,          \* the rows written to the report                 (l.221)
    prevOutput,      \* the rows written by the previous run of the script
    run,             \* which run of the script this is
    fx, fy,          \* arguments handed to the pure functions
    fres             \* what the pure functions returned for them

vars == << sf_list, prospects_list, batchSize, pc, sf_tuples, ngram_index,
           batchNo, matches, scored, output, prevOutput, run, fx, fy, fres >>

----------------------------------------------------------------------------
(* Characters and strings *)

LowerLetters ==
    << "a", "b", "c", "d", "e", "f", "g", "h", "i", "j", "k", "l", "m",
       "n", "o", "p", "q", "r", "s", "t", "u", "v", "w", "x", "y", "z" >>

UpperLetters ==
    << "A", "B", "C", "D", "E", "F", "G", "H", "I", "J", "K", "L", "M",
       "N", "O", "P", "Q", "R", "S", "T", "U", "V", "W", "X", "Y", "Z" >>

Digits == { "0", "1", "2", "3", "4", "5", "6", "7", "8", "9" }

Range(s) == { s[i] : i \in DOMAIN s }

\* A value of the column that is not a str (a number read from the sheet).
NonStr == << "<not a str>" >>

\* isinstance(name, str)
IsStr(name) == name # NonStr

\* str.lower for one character
LowerChar(c) ==
    IF \E i \in DOMAIN UpperLetters : UpperLetters[i] = c
    THEN LowerLetters[CHOOSE i \in DOMAIN UpperLetters : UpperLetters[i] = c]
    ELSE c

\* str.lower
Lower(s) == [ i \in DOMAIN s |-> LowerChar(s[i]) ]

\* \w of the re module
IsWordChar(c) ==
    c \in Range(LowerLetters) \cup Range(UpperLetters) \cup Digits \cup { "_" }

\* whether position p of s (1-based; 0 and Len(s)+1 are outside) holds a \w
WordAt(s, p) == p \in DOMAIN s /\ IsWordChar(s[p])

\* \b between s[p-1] and s[p]
Boundary(s, p) == WordAt(s, p - 1) # WordAt(s, p)

\* the literal pat occurs in s at position i
LiteralAt(s, pat, i) ==
    /\ i + Len(pat) - 1 <= Len(s)
    /\ \A k \in DOMAIN pat : s[i + k - 1] = pat[k]

\* r'\b' + re.escape(pat) + r'\b' matches s at position i
WordMatchAt(s, pat, i) ==
    /\ LiteralAt(s, pat, i)
    /\ Boundary(s, i)
    /\ Boundary(s, i + Len(pat))

\* The positions of s kept by a filter, in order: s restricted to keep.
KeepPositions(s, keep) ==
    [ k \in 1 .. Cardinality(keep) |->
        s[CHOOSE i \in keep : Cardinality({ j \in keep : j <= i }) = k] ]

\* the first position >= i where the word pattern matches, 0 when there is none
NextWordMatch(s, pat, i) ==
    IF \E j \in i .. Len(s) : WordMatchAt(s, pat, j)
    THEN CHOOSE j \in i .. Len(s) :
             /\ WordMatchAt(s, pat, j)
             /\ \A k \in i .. (j - 1) : ~ WordMatchAt(s, pat, k)
    ELSE 0

\* re.sub(r'\b' + re.escape(pat) + r'\b', '', s): the leftmost matches, none
\* overlapping, are dropped; i is the position the scan has reached.
RECURSIVE SubWordFrom(_, _, _)
SubWordFrom(s, pat, i) ==
    LET j == NextWordMatch(s, pat, i)
    IN  IF j = 0 THEN SubSeq(s, i, Len(s))
        ELSE SubSeq(s, i, j - 1) \o SubWordFrom(s, pat, j + Len(pat))

SubWord(s, pat) == SubWordFrom(s, pat, 1)

\* re.sub over a list of words, in the list's order
RECURSIVE SubWords(_, _)
SubWords(s, words) ==
    IF words = << >> \/ s = << >> THEN s
    ELSE LET rest == SubWord(s, Lower(Head(words)))
         IN  IF rest = << >> THEN rest ELSE SubWords(rest, Tail(words))

\* the first position >= i that opens a bracketed span, 0 when there is none
NextBracket(s, open, close, i) ==
    LET opens == { j \in i .. Len(s) :
                     s[j] = open /\ \E k \in (j + 1) .. Len(s) : s[k] = close }
    IN  IF opens = { } THEN 0
        ELSE CHOOSE j \in opens : \A k \in opens : j <= k

\* re.sub(r'\([^)]*\)', '', s) and its [ ] and { } forms: a span runs from an
\* opening bracket to the nearest closing bracket after it.
RECURSIVE SubBracketFrom(_, _, _, _)
SubBracketFrom(s, open, close, i) ==
    LET j == NextBracket(s, open, close, i)
    IN  IF j = 0 THEN SubSeq(s, i, Len(s))
        ELSE LET e == CHOOSE e \in (j + 1) .. Len(s) :
                          /\ s[e] = close
                          /\ \A k \in (j + 1) .. (e - 1) : s[k] # close
             IN  SubSeq(s, i, j - 1) \o SubBracketFrom(s, open, close, e + 1)

SubBracket(s, open, close) == SubBracketFrom(s, open, close, 1)

\* re.sub(r'[^a-z0-9 ]', '', s)
KeepChar(c) == c \in Range(LowerLetters) \cup Digits \cup { " " }

StripSpecial(s) == SelectSeq(s, KeepChar)

\* re.sub(r'\s+', ' ', s), on a string whose only white space is ' ': of
\* each run of spaces the first is kept.
CollapseSpaces(s) ==
    KeepPositions(s, { i \in DOMAIN s : ~ (s[i] = " " /\ i > 1 /\ s[i - 1] = " ") })

\* str.strip, on a string whose only white space is ' '
Strip(s) ==
    LET solid == { i \in DOMAIN s : s[i] # " " }
    IN  IF solid = { } THEN << >>
        ELSE SubSeq(s, CHOOSE i \in solid : \A k \in solid : i <= k,
                       CHOOSE i \in solid : \A k \in solid : k <= i)

----------------------------------------------------------------------------
(* Settings *)

\* Variant of COMMON_SUFFIXES: the list without 'solutions'.
SuffixesWithoutSolutions ==
    << << "p", "r", "i", "v", "a", "t", "e", " ", "l", "i", "m", "i", "t", "e", "d" >>,
       << "p", "v", "t", " ", "l", "t", "d" >>,
       << "p", "v", "t", ".", " ", "l", "t", "d", "." >>,
       << "p", "v", "t", ".", " ", "l", "t", "d" >>,
       << "p", "v", "t", " ", "l", "t", "d", "." >>,
       << "p", "v", "t", "." >>,
       << "p", "v", "t" >>,
       << "l", "l", "p" >>,
       << "i", "n", "c" >>,
       << "c", "o", "r", "p", "o", "r", "a", "t", "i", "o", "n" >>,
       << "l", "i", "m", "i", "t", "e", "d" >>,
       << "l", "t", "d", "." >>,
       << "l", "t", "d" >>,
       << "c", "o" >>,
       << "c", "o", "m", "p", "a", "n", "y" >>,
       << "g", "r", "o", "u", "p" >>,
       << "h", "o", "l", "d", "i", "n", "g", "s" >>,
       << "i", "n", "t", "e", "r", "n", "a", "t", "i", "o", "n", "a", "l" >>,
       << "e", "n", "t", "e", "r", "p", "r", "i", "s", "e", "s" >>,
       << "s", "e", "r", "v", "i", "c", "e", "s" >>,
       << "c", "o", "r", "p" >>,
       << "i", "n", "c", "o", "r", "p", "o", "r", "a", "t", "e", "d" >> >>

COMMON_SUFFIXES ==
    << << "p", "r", "i", "v", "a", "t", "e", " ", "l", "i", "m", "i", "t", "e", "d" >>,
       << "p", "v", "t", " ", "l", "t", "d" >>,
       << "p", "v", "t", ".", " ", "l", "t", "d", "." >>,
       << "p", "v", "t", ".", " ", "l", "t", "d" >>,
       << "p", "v", "t", " ", "l", "t", "d", "." >>,
       << "p", "v", "t", "." >>,
       << "p", "v", "t" >>,
       << "l", "l", "p" >>,
       << "i", "n", "c" >>,
       << "c", "o", "r", "p", "o", "r", "a", "t", "i", "o", "n" >>,
       << "l", "i", "m", "i", "t", "e", "d" >>,
       << "l", "t", "d", "." >>,
       << "l", "t", "d" >>,
       << "c", "o" >>,
       << "c", "o", "m", "p", "a", "n", "y" >>,
       << "g", "r", "o", "u", "p" >>,
       << "h", "o", "l", "d", "i", "n", "g", "s" >>,
       << "i", "n", "t", "e", "r", "n", "a", "t", "i", "o", "n", "a", "l" >>,
       << "e", "n", "t", "e", "r", "p", "r", "i", "s", "e", "s" >>,
       << "s", "o", "l", "u", "t", "i", "o", "n", "s" >>,
       << "s", "e", "r", "v", "i", "c", "e", "s" >>,
       << "c", "o", "r", "p" >>,
       << "i", "n", "c", "o", "r", "p", "o", "r", "a", "t", "e", "d" >> >>

COMMON_REMOVE_WORDS ==
    << << "i", "n", "d", "i", "a" >>, << "I", "N", "D", "I", "A" >> >>

SIMILARITY_THRESHOLD == 90

\* the default n of get_ngrams, create_ngram_index and find_candidates
NGRAM_N == 2

----------------------------------------------------------------------------
(* normalize_name *)

normalize_name(name) ==
    IF ~ IsStr(name) THEN << >>
    ELSE
      LET lowered   == Lower(name)
          noRound   == SubBracket(lowered, "(", ")")
          noSquare  == SubBracket(noRound, "[", "]")
          noCurly   == SubBracket(noSquare, "{", "}")
          noWords   == SubWords(noCurly, COMMON_REMOVE_WORDS)
          noSuffix  == SubWords(noWords, COMMON_SUFFIXES)
          stripped  == StripSpecial(noSuffix)
          collapsed == CollapseSpaces(stripped)
      IN  Strip(collapsed)

----------------------------------------------------------------------------
(* fuzz.ratio of rapidfuzz: the normalized Indel similarity, times 100.    *)
(* The Indel distance counts insertions and deletions only, and is         *)
(* len(a) + len(b) - 2 * lcs(a, b).  The value is a float; it is kept here *)
(* as the exact fraction num / den in lowest terms (the strings are short  *)
(* enough that distinct fractions are distinct floats in the same order,   *)
(* and (1 - 1/10) * 100 is the float 90.0).                                *)

Max(m, n) == IF m >= n THEN m ELSE n

RECURSIVE GCD(_, _)
GCD(m, n) == IF n = 0 THEN m ELSE GCD(n, m % n)

\* the fraction n / d, d > 0, in lowest terms
Frac(n, d) == LET g == GCD(n, d) IN [ num |-> n \div g, den |-> d \div g ]

\* the largest element of a non-empty set of numbers
MaxOf(S) == CHOOSE m \in S : \A k \in S : k <= m

\* One row of the longest-common-subsequence table.  prev[j] is the length
\* for the characters before c and b[1..j]; the row of c is, at j, the best
\* of leaving c out (prev[j]) and of pairing c with an equal b[k], k <= j
\* (1 more than the length before c and before b[k]).
LcsRow(prev, c, b) ==
    LET before(k) == IF k = 1 THEN 0 ELSE prev[k - 1]
        cell(j)   == MaxOf({ prev[j] } \cup
                           { before(k) + 1 : k \in { k \in 1 .. j : b[k] = c } })
    IN  SubSeq([ j \in DOMAIN b |-> cell(j) ], 1, Len(b))

\* the table, row by row: table[i] is the row of a[i]
RECURSIVE LcsTable(_, _, _)
LcsTable(a, b, table) ==
    IF Len(table) = Len(a) THEN table
    ELSE LET i    == Len(table) + 1
             prev == IF i = 1 THEN [ j \in DOMAIN b |-> 0 ] ELSE table[i - 1]
         IN  LcsTable(a, b, Append(table, LcsRow(prev, a[i], b)))

\* the length of the longest common subsequence of a and b
LcsLen(a, b) ==
    IF a = << >> \/ b = << >> THEN 0
    ELSE LcsTable(a, b, << >>)[Len(a)][Len(b)]

\* Indel.distance
IndelDistance(a, b) == Len(a) + Len(b) - 2 * LcsLen(a, b)

\* Variant of ratio: the distance is normalised by the longer length, not
\* by the sum of the lengths.
ratioOverLongest(a, b) ==
    LET longest == Max(Len(a), Len(b))
    IN  IF longest = 0 THEN Frac(100, 1)
        ELSE Frac(100 * (longest - IndelDistance(a, b)), longest)

\* fuzz.ratio(a, b): 100 * (1 - distance / (len(a) + len(b))), and 100 when
\* both are empty
ratio(a, b) ==
    LET lensum == Len(a) + Len(b)
    IN  IF lensum = 0 THEN Frac(100, 1)
        ELSE Frac(100 * (lensum - IndelDistance(a, b)), lensum)

\* score >= n for a float score and an int n
ScoreGE(score, n) == score.num >= n * score.den

\* score1 > score2
ScoreGT(score1, score2) == score1.num * score2.den > score2.num * score1.den

----------------------------------------------------------------------------
(* get_ngrams, create_ngram_index, find_candidates *)

\* Variant of get_ngrams: the range stops one short, range(len(name) - n).
get_ngrams_short(name, n) ==
    IF Len(name) < n THEN { name }
    ELSE { SubSeq(name, i, i + n - 1) : i \in 1 .. (Len(name) - n) }

get_ngrams(name, n) ==
    IF Len(name) < n THEN { name }
    ELSE { SubSeq(name, i, i + n - 1) : i \in 1 .. (Len(name) - n + 1) }

\* Variant of create_ngram_index: the "if not norm_name: continue" is missing.
create_ngram_index_noskip(names, n) ==
    LET grams == UNION { get_ngrams(names[i][2], n) : i \in DOMAIN names }
    IN  [ g \in grams |->
            KeepPositions(names,
                { i \in DOMAIN names : g \in get_ngrams(names[i][2], n) }) ]

\* A name_tuple is << name, norm_name >>.  The index is a dict: a function
\* from the n-grams that occur to the list of tuples holding them, each
\* list in the order of names.
create_ngram_index(names, n) ==
    LET indexed == { i \in DOMAIN names : names[i][2] # << >> }
        grams   == UNION { get_ngrams(names[i][2], n) : i \in indexed }
    IN  [ g \in grams |->
            KeepPositions(names,
                { i \in indexed : g \in get_ngrams(names[i][2], n) }) ]

find_candidates(norm_prospect, index, n) ==
    IF norm_prospect = << >> THEN { }
    ELSE UNION { Range(index[g]) :
                   g \in get_ngrams(norm_prospect, n) \cap DOMAIN index }

----------------------------------------------------------------------------
(* The inputs: the two columns hold values of these pools. *)

AmaceRegistry ==    \* "Amace Solutions Pvt. Ltd."
    << "A", "m", "a", "c", "e", " ", "S", "o", "l", "u", "t", "i", "o", "n", "s",
       " ", "P", "v", "t", ".", " ", "L", "t", "d", "." >>
AmaceProspect ==    \* "Amace Solutions (India) Ltd"
    << "A", "m", "a", "c", "e", " ", "S", "o", "l", "u", "t", "i", "o", "n", "s",
       " ", "(", "I", "n", "d", "i", "a", ")", " ", "L", "t", "d" >>
TotallyDifferent == \* "Totally Different Co"
    << "T", "o", "t", "a", "l", "l", "y", " ", "D", "i", "f", "f", "e", "r", "e",
       "n", "t", " ", "C", "o" >>
DeltaTechLtd ==     \* "Delta Tech Ltd"
    << "D", "e", "l", "t", "a", " ", "T", "e", "c", "h", " ", "L", "t", "d" >>
DeltaTechUpper ==   \* "DELTA TECH"
    << "D", "E", "L", "T", "A", " ", "T", "E", "C", "H" >>
DeltaTeck ==        \* "Delta Teck"
    << "D", "e", "l", "t", "a", " ", "T", "e", "c", "k" >>
DeltaTec ==         \* "Delta Tec"
    << "D", "e", "l", "t", "a", " ", "T", "e", "c" >>
PvtLtd ==           \* "Pvt. Ltd."
    << "P", "v", "t", ".", " ", "L", "t", "d", "." >>
CoDot ==            \* "Co."
    << "C", "o", "." >>

RegistryPool == { AmaceRegistry, DeltaTechLtd, DeltaTechUpper, PvtLtd, NonStr }
ProspectPool == { AmaceProspect, TotallyDifferent, DeltaTeck, DeltaTec, CoDot }

MaxRegistry  == 2   \* longest registry column
MaxProspects == 2   \* longest prospects column
MaxBatchSize == 2   \* largest BATCH_SIZE tried

\* normalize_name of the values of the pools, computed once
NormalizedPool ==
    [ name \in RegistryPool \cup ProspectPool |-> normalize_name(name) ]

\* normalize_name(name), for a value of the columns
Normalized(name) == NormalizedPool[name]

\* fuzz.ratio of the normalized names of the pools, computed once
RatioPool ==
    LET norms == { NormalizedPool[name] : name \in DOMAIN NormalizedPool }
    IN  [ a \in norms |-> [ b \in norms |-> ratio(a, b) ] ]

SeqsUpTo(S, n) == UNION { [ 1 .. k -> S ] : k \in 0 .. n }

----------------------------------------------------------------------------
(* process_batch *)

\* The order in which "for ... in candidates" visits the set find_candidates
\* returned: every record once, in an order the set's hashing decides (str
\* hashes differ from one interpreter process to the next).
Iterations(candidates) ==
    { order \in [ 1 .. Cardinality(candidates) -> candidates ] :
        \A i, j \in DOMAIN order : order[i] = order[j] => i = j }

\* Variant of CandidateOrders: the candidates are gathered in a list, bucket
\* after bucket along the prospect's n-grams, so that a record comes once
\* for every n-gram it shares.
RECURSIVE BucketsFrom(_, _, _, _)
BucketsFrom(norm_prospect, index, n, i) ==
    IF i + n - 1 > Len(norm_prospect) THEN << >>
    ELSE LET gram == SubSeq(norm_prospect, i, i + n - 1)
         IN  (IF gram \in DOMAIN index THEN index[gram] ELSE << >>)
             \o BucketsFrom(norm_prospect, index, n, i + 1)

CandidateOrdersList(norm_prospect, index, n) ==
    { BucketsFrom(norm_prospect, index, n, 1) }

\* The orders in which the loop of line 104 may visit the candidates of
\* line 101.
CandidateOrders(norm_prospect, index, n) ==
    Iterations(find_candidates(norm_prospect, index, n))

\* One fuzz.ratio call of the loop body: prospect number k of the column
\* against one candidate.
ScoreCall(k, prospect, norm_prospect, candidate) ==
    [ k         |-> k,
      prospect  |-> prospect,
      norm      |-> norm_prospect,
      candidate |-> candidate,
      score     |-> RatioPool[norm_prospect][candidate[2]] ]

\* Variant of Qualifies: "score > SIMILARITY_THRESHOLD".
QualifiesStrict(score) == ScoreGT(score, Frac(SIMILARITY_THRESHOLD, 1))

\* the condition of line 106
Qualifies(score) == ScoreGE(score, SIMILARITY_THRESHOLD)

\* the dict appended to batch_matches (lines 107-113)
MatchRecord(call) ==
    [ Prospect   |-> call.prospect,
      Matched    |-> call.candidate[1],
      Similarity |-> call.score,
      NormProspect   |-> call.norm,
      NormSalesforce |-> call.candidate[2] ]

\* The runs of the loop body for one prospect: one sequence of fuzz.ratio
\* calls per iteration order; none when the normalized prospect is empty.
ProspectCalls(k, prospect, index) ==
    LET norm_prospect == Normalized(prospect)
    IN  IF norm_prospect = << >> THEN { << >> }
        ELSE { [ i \in DOMAIN order |->
                    ScoreCall(k, prospect, norm_prospect, order[i]) ] :
               order \in CandidateOrders(norm_prospect, index, NGRAM_N) }

\* The runs of process_batch over batch, whose first prospect is number
\* first of the column: the calls of its prospects, in the batch's order.
RECURSIVE BatchCalls(_, _, _)
BatchCalls(batch, first, index) ==
    IF batch = << >> THEN { << >> }
    ELSE { head \o rest :
             head \in ProspectCalls(first, Head(batch), index),
             rest \in BatchCalls(Tail(batch), first + 1, index) }

\* batch_matches, given the calls made: a record for every call that
\* qualifies, in the order of the calls
RECURSIVE BatchMatches(_)
BatchMatches(calls) ==
    IF calls = << >> THEN << >>
    ELSE (IF Qualifies(Head(calls).score) THEN << MatchRecord(Head(calls)) >>
          ELSE << >>) \o BatchMatches(Tail(calls))

----------------------------------------------------------------------------
(* __main__ *)

\* batches[i] of line 208, i from 0: prospects_list[i*size : i*size + size]
BatchSlice(list, size, i) ==
    SubSeq(list, i * size + 1, IF (i + 1) * size <= Len(list)
                               THEN (i + 1) * size ELSE Len(list))

\* Variant of NumBatches: len // size batches, the incomplete last one lost.
NumBatchesFloor(list, size) == Len(list) \div size

\* len(batches): range(0, len(list), size) has ceil(len / size) elements
NumBatches(list, size) == (Len(list) + size - 1) \div size

\* sf_tuples of lines 199-200: the pairs whose normalized name is not empty
SfTuples(list) ==
    LET pairs == [ i \in DOMAIN list |-> << list[i], Normalized(list[i]) >> ]
    IN  KeepPositions(pairs, { i \in DOMAIN pairs : pairs[i][2] # << >> })

\* The orders sort_values('Similarity %', ascending=False) may leave the rows
\* in: the default kind is quicksort, which is not stable, so rows of equal
\* score may end in any order.  Each arrangement is a sequence of row numbers.
RECURSIVE Descending(_, _)
Descending(rows, left) ==
    IF left = { } THEN { << >> }
    ELSE UNION { { << i >> \o rest : rest \in Descending(rows, left \ { i }) } :
                 i \in { i \in left : \A j \in left :
                           ~ ScoreGT(rows[j].Similarity, rows[i].Similarity) } }

SortValues(rows) ==
    { [ k \in DOMAIN order |-> rows[order[k]] ] :
        order \in Descending(rows, DOMAIN rows) }

----------------------------------------------------------------------------
(* One run of the script, from the loaded columns to the written report *)

NoResult == [ applied |-> "none" ]

Init ==
    /\ sf_list \in SeqsUpTo(RegistryPool, MaxRegistry)
    /\ prospects_list \in SeqsUpTo(ProspectPool, MaxProspects)
    /\ batchSize \in 1 .. MaxBatchSize
    /\ pc = "normalize"
    /\ sf_tuples = << >>
    /\ ngram_index = << >>
    /\ batchNo = 0
    /\ matches = << >>
    /\ scored = << >>
    /\ output = << >>
    /\ prevOutput = << >>
    /\ run = 1
    /\ fx = << >> /\ fy = << >> /\ fres = NoResult

\* lines 199-200
NormalizeRegistry ==
    /\ pc = "normalize"
    /\ sf_tuples' = SfTuples(sf_list)
    /\ pc' = "index"
    /\ UNCHANGED << sf_list, prospects_list, batchSize, ngram_index, batchNo,
                    matches, scored, output, prevOutput, run, fx, fy, fres >>

\* lines 204 and 207-208
CreateIndex ==
    /\ pc = "index"
    /\ ngram_index' = create_ngram_index(sf_tuples, NGRAM_N)
    /\ matches' = << >>
    /\ batchNo' = 0
    /\ pc' = "batches"
    /\ UNCHANGED << sf_list, prospects_list, batchSize, sf_tuples, scored,
                    output, prevOutput, run, fx, fy, fres >>

\* one turn of the loop of lines 211-215
ProcessBatch ==
    /\ pc = "batches"
    /\ batchNo < NumBatches(prospects_list, batchSize)
    /\ \E calls \in BatchCalls(BatchSlice(prospects_list, batchSize, batchNo),
                               batchNo * batchSize + 1, ngram_index) :
          /\ scored' = scored \o calls
          /\ matches' = matches \o BatchMatches(calls)
    /\ batchNo' = batchNo + 1
    /\ UNCHANGED << sf_list, prospects_list, batchSize, pc, sf_tuples,
                    ngram_index, output, prevOutput, run, fx, fy, fres >>

\* lines 218-224: the report is written only when there are matches
WriteReport ==
    /\ pc = "batches"
    /\ batchNo = NumBatches(prospects_list, batchSize)
    /\ IF matches # << >> THEN output' \in SortValues(matches)
                          ELSE output' = << >>
    /\ pc' = "done"
    /\ UNCHANGED << sf_list, prospects_list, batchSize, sf_tuples, ngram_index,
                    batchNo, matches, scored, prevOutput, run, fx, fy, fres >>

Next == NormalizeRegistry \/ CreateIndex \/ ProcessBatch \/ WriteReport

Spec == Init /\ [][Next]_vars

----------------------------------------------------------------------------
(* Two runs of the script on the same columns: the second is a new         *)
(* interpreter process, which reads the same files and keeps nothing of    *)
(* the first but the report it wrote.                                      *)

Rerun ==
    /\ pc = "done"
    /\ run = 1
    /\ run' = 2
    /\ prevOutput' = output
    /\ pc' = "normalize"
    /\ sf_tuples' = << >>
    /\ ngram_index' = << >>
    /\ batchNo' = 0
    /\ matches' = << >>
    /\ scored' = << >>
    /\ output' = << >>
    /\ UNCHANGED << sf_list, prospects_list, batchSize, fx, fy, fres >>

DetNext == NormalizeRegistry \/ CreateIndex \/ ProcessBatch \/ WriteReport
           \/ Rerun

DetSpec == Init /\ [][DetNext]_vars

----------------------------------------------------------------------------
(* The pure functions on their own: fuzz.ratio, create_ngram_index and     *)
(* find_candidates on any two short normalized names, normalize_name on    *)
(* any short raw name.                                                     *)

MaxQueryLen == 5    \* longest normalized prospect handed to the functions
MaxNameLen  == 6    \* longest normalized registry name handed to them
MaxRawLen   == 3    \* longest raw name handed to normalize_name

NameAlphabet == { "a", "b" }
RawAlphabet  == { "C", "o", ".", " " }

\* the script is not running
NoRun ==
    /\ sf_list = << >> /\ prospects_list = << >> /\ batchSize = 1
    /\ pc = "none"
    /\ sf_tuples = << >> /\ ngram_index = << >> /\ batchNo = 0
    /\ matches = << >> /\ scored = << >> /\ output = << >>
    /\ prevOutput = << >> /\ run = 1

NoRunUnchanged ==
    UNCHANGED << sf_list, prospects_list, batchSize, pc, sf_tuples,
                 ngram_index, batchNo, matches, scored, output, prevOutput,
                 run >>

ScoreInit ==
    /\ NoRun
    /\ fx \in SeqsUpTo(NameAlphabet, MaxQueryLen)
    /\ fy \in SeqsUpTo(NameAlphabet, MaxNameLen)
    /\ fres = NoResult

\* fuzz.ratio(norm_prospect, norm_existing) of line 105, for fx and fy
Score ==
    /\ fres = NoResult
    /\ fres' = [ applied |-> "score", score |-> ratio(fx, fy) ]
    /\ UNCHANGED << fx, fy >>
    /\ NoRunUnchanged

\* create_ngram_index for a registry of the one record (fy, fy), then
\* find_candidates for the prospect fx
Lookup ==
    /\ fres = NoResult
    /\ LET index == create_ngram_index(<< << fy, fy >> >>, NGRAM_N)
       IN  fres' = [ applied    |-> "lookup",
                     index      |-> index,
                     candidates |-> find_candidates(fx, index, NGRAM_N) ]
    /\ UNCHANGED << fx, fy >>
    /\ NoRunUnchanged

ScoreNext == Score \/ Lookup

ScoreSpec == ScoreInit /\ [][ScoreNext]_vars

NormInit ==
    /\ NoRun
    /\ fx \in SeqsUpTo(RawAlphabet, MaxRawLen)
    /\ fy = << >>
    /\ fres = NoResult

\* normalize_name(fx), and normalize_name of what it returned
Normalize ==
    /\ fres = NoResult
    /\ LET once == normalize_name(fx)
       IN  fres' = [ applied |-> "normalize",
                     once    |-> once,
                     twice   |-> normalize_name(once) ]
    /\ UNCHANGED << fx, fy >>
    /\ NoRunUnchanged

NormNext == Normalize

NormSpec == NormInit /\ [][NormNext]_vars

----------------------------------------------------------------------------
(* Properties *)

Amace == << "a", "m", "a", "c", "e" >>
AmaceSolutions ==
    << "a", "m", "a", "c", "e", " ", "s", "o", "l", "u", "t", "i", "o", "n", "s" >>

\* how many times x occurs in the sequence s
Count(s, x) == Cardinality({ i \in DOMAIN s : s[i] = x })

\* the scenario of C1, all batches processed and the report written
C1_Scenario ==
    /\ sf_list = << AmaceRegistry >>
    /\ prospects_list = << AmaceProspect, TotallyDifferent >>
    /\ pc = "done"

\* what C1 says of the scenario, for the normalized name norm
C1_OneRecord(norm) ==
    /\ Len(matches) = 1
    /\ matches[1].Prospect = AmaceProspect
    /\ matches[1].Matched = AmaceRegistry
    /\ matches[1].NormProspect = norm
    /\ matches[1].NormSalesforce = norm
    /\ matches[1].Similarity = [ num |-> 100, den |-> 1 ]
    /\ \A i \in DOMAIN matches : matches[i].Prospect # TotallyDifferent

\* C1, as stated: in the scenario there is exactly one match record, both
\* normalized names in it are "amace solutions", its score is 100 and no
\* record is for "Totally Different Co".
C1_AmaceSolutions == C1_Scenario => C1_OneRecord(AmaceSolutions)

\* C1, amended: in the scenario there is exactly one match record, both
\* normalized names in it are "amace" ('solutions' is one of the suffixes
\* normalize_name removes), its score is 100 and no record is for
\* "Totally Different Co".
C1_Amace == C1_Scenario => C1_OneRecord(Amace)

C1_Witness == C1_Scenario /\ Len(matches) = 1 /\ Len(scored) = 1

\* The edit distance of a and b where an insertion and a deletion cost 1
\* and a substitution costs subst: the Levenshtein distance for subst = 1,
\* the insertion-deletion distance for subst = 2.  row is the part computed
\* so far of the row of a[i]; prev is the row of a[i-1].
RECURSIVE EditRow(_, _, _, _, _, _)
EditRow(prev, i, c, b, subst, row) ==
    IF Len(row) = Len(b) THEN row
    ELSE LET j    == Len(row) + 1
             left == IF j = 1 THEN i ELSE row[j - 1]
             diag == IF j = 1 THEN i - 1 ELSE prev[j - 1]
             best == { prev[j] + 1, left + 1,
                       diag + (IF b[j] = c THEN 0 ELSE subst) }
             cell == CHOOSE m \in best : \A k \in best : m <= k
         IN  EditRow(prev, i, c, b, subst, Append(row, cell))

RECURSIVE EditRows(_, _, _, _, _)
EditRows(a, b, subst, i, prev) ==
    IF i > Len(a) THEN prev
    ELSE EditRows(a, b, subst, i + 1, EditRow(prev, i, a[i], b, subst, << >>))

EditDistance(a, b, subst) ==
    IF b = << >> THEN Len(a)
    ELSE EditRows(a, b, subst, 1, [ j \in DOMAIN b |-> j ])[Len(b)]

\* 100 * (1 - levenshtein(a, b) / max(len(a), len(b))), rounded to the
\* nearest integer; 100 for two empty strings
RoundedLevenshtein(a, b) ==
    LET longest == Max(Len(a), Len(b))
    IN  IF longest = 0 THEN 100
        ELSE (200 * (longest - EditDistance(a, b, 1)) + longest)
                 \div (2 * longest)

\* C2, as stated: the score of a and b is the integer
\* 100 * (1 - levenshtein(a,b) / max(len(a), len(b))) rounded to the nearest
\* integer, 100 for two empty strings and 0 for one empty string.
C2_RoundedLevenshtein ==
    fres.applied = "score" =>
        fres.score = [ num |-> RoundedLevenshtein(fx, fy), den |-> 1 ]

\* C2, amended: the score of a and b is the number
\* 100 * (1 - d / (len(a) + len(b))), not rounded, where d is the least
\* number of insertions and deletions that turn a into b; two empty strings
\* score 100, an empty and a non-empty string score 0, and the score is a
\* number in [0, 100].
C2_IndelRatio ==
    fres.applied = "score" =>
        LET lensum == Len(fx) + Len(fy)
            d      == EditDistance(fx, fy, 2)
        IN  /\ fres.score.den > 0
            /\ lensum = 0 => fres.score = [ num |-> 100, den |-> 1 ]
            /\ lensum > 0 =>
                 fres.score.num * lensum = 100 * (lensum - d) * fres.score.den
            /\ (lensum > 0 /\ (fx = << >> \/ fy = << >>)) =>
                 fres.score = [ num |-> 0, den |-> 1 ]
            /\ 0 <= fres.score.num
            /\ fres.score.num <= 100 * fres.score.den

\* a score that is not an integer, and another than the rounded one
C2_Witness ==
    /\ fres.applied = "score"
    /\ fx # << >> /\ fy # << >> /\ fx # fy
    /\ fres.score.den # 1
    /\ fres.score.num > 0

\* C3: whatever the batch size, the set of match records collected over
\* the batches is the set that one process_batch call over the whole
\* prospects column produces with the same index.
C3_BatchingInvariance ==
    pc = "done" =>
        \A calls \in BatchCalls(prospects_list, 1, ngram_index) :
            Range(BatchMatches(calls)) = Range(matches)

\* several batches, and matches from two of them
C3_Witness ==
    /\ pc = "done"
    /\ batchNo >= 2
    /\ Cardinality({ matches[i].Prospect : i \in DOMAIN matches }) >= 2

\* rows sorted by score, descending, rows of equal score in the order they
\* have in rows
StableSorted(rows) ==
    LET before(i, j) ==
            \/ ScoreGT(rows[i].Similarity, rows[j].Similarity)
            \/ rows[i].Similarity = rows[j].Similarity /\ i < j
        place(i) == 1 + Cardinality({ j \in DOMAIN rows : before(j, i) })
    IN  [ p \in DOMAIN rows |-> rows[CHOOSE i \in DOMAIN rows : place(i) = p] ]

\* C4: the final result is the collected match records sorted by score,
\* descending, and records of equal score keep the order in which they
\* were appended to the match list.
C4_StableDescending == pc = "done" => output = StableSorted(matches)

\* C5: two runs of the script on the same registry, the same prospects and
\* the same configuration write the same sequence of match records.
C5_SameOrderedOutput == (run = 2 /\ pc = "done") => output = prevOutput

\* C6: normalize_name applied to its own result returns that result.
C6_Idempotent == fres.applied = "normalize" => fres.twice = fres.once

\* the score of a fuzz.ratio call is at least the threshold
AtLeastThreshold(call) == call.score.num >= SIMILARITY_THRESHOLD * call.score.den

\* C7: a match record is emitted for a scored pair if and only if its score
\* is >= the threshold: the match list is the calls with such a score, in
\* the order of the calls, and every record collected or written has a
\* score >= the threshold.
C7_ThresholdFilter ==
    LET kept == { i \in DOMAIN scored : AtLeastThreshold(scored[i]) }
    IN  /\ Len(matches) = Cardinality(kept)
        /\ \A i \in kept :
              LET m == Cardinality({ j \in kept : j <= i })
              IN  /\ matches[m].Prospect = scored[i].prospect
                  /\ matches[m].Matched = scored[i].candidate[1]
                  /\ matches[m].Similarity = scored[i].score
        /\ \A m \in DOMAIN matches :
              matches[m].Similarity.num
                  >= SIMILARITY_THRESHOLD * matches[m].Similarity.den
        /\ \A m \in DOMAIN output :
              output[m].Similarity.num
                  >= SIMILARITY_THRESHOLD * output[m].Similarity.den

\* a pair scoring exactly the threshold is in the match list, and a scored
\* pair below it is not
C7_Witness ==
    /\ \E m \in DOMAIN matches :
          matches[m].Similarity = [ num |-> SIMILARITY_THRESHOLD, den |-> 1 ]
    /\ \E i \in DOMAIN scored :
          /\ ~ AtLeastThreshold(scored[i])
          /\ \A m \in DOMAIN matches :
                ~ (/\ matches[m].Prospect = scored[i].prospect
                   /\ matches[m].Matched = scored[i].candidate[1])

\* C8: a registry record whose score against a non-empty normalized
\* prospect is >= 90 is among the candidates of the prospect; a record
\* whose normalized name is the prospect's, of length >= n, is among them;
\* and the records matched through the index are those matched by scoring
\* the prospect against every indexed record.
C8_Recall ==
    fres.applied = "lookup" =>
        LET record  == << fy, fy >>
            indexed == IF fy = << >> THEN { } ELSE { record }
            matched(records) ==
                { r \in records :
                    LET score == ratio(fx, r[2])
                    IN  score.num >= SIMILARITY_THRESHOLD * score.den }
        IN  /\ (fx # << >> /\ matched(indexed) # { }) =>
                  record \in fres.candidates
            /\ (fx = fy /\ Len(fx) >= NGRAM_N) => record \in fres.candidates
            /\ fx # << >> => matched(fres.candidates) = matched(indexed)

\* a prospect and a different registry name that score at least 90
C8_Witness ==
    /\ fres.applied = "lookup"
    /\ fx # fy
    /\ Len(fx) >= NGRAM_N
    /\ ScoreGE(ratio(fx, fy), SIMILARITY_THRESHOLD)
    /\ << fy, fy >> \in fres.candidates

\* C9: a registry record whose normalized name is empty is in no bucket of
\* the index, neither of the index the script builds nor of the one
\* create_ngram_index builds from all the pairs of the registry column,
\* and is the matched entry of no match record.
C9_NoEmptyNormalized ==
    LET pairs == [ i \in DOMAIN sf_list |->
                     << sf_list[i], Normalized(sf_list[i]) >> ]
        whole == create_ngram_index(pairs, NGRAM_N)
    IN  /\ pc \in { "batches", "done" } =>
              \A g \in DOMAIN ngram_index :
                  \A i \in DOMAIN ngram_index[g] : ngram_index[g][i][2] # << >>
        /\ pc = "index" =>
              \A g \in DOMAIN whole :
                  \A i \in DOMAIN whole[g] : whole[g][i][2] # << >>
        /\ \A m \in DOMAIN matches :
              /\ matches[m].NormSalesforce # << >>
              /\ Normalized(matches[m].Matched) # << >>

\* a registry with a record whose normalized name is empty and one that
\* matched
C9_Witness ==
    /\ pc = "done"
    /\ \E i \in DOMAIN sf_list : Normalized(sf_list[i]) = << >>
    /\ matches # << >>

\* C10: for one prospect occurrence a registry record is scored at most
\* once, so no more match records are alike than the prospect has
\* occurrences; a prospect whose normalized name is empty has no
\* candidates and is never scored.
C10_ScoredOnce ==
    /\ \A i, j \in DOMAIN scored :
          (scored[i].k = scored[j].k /\ scored[i].candidate = scored[j].candidate)
              => i = j
    /\ \A m \in DOMAIN matches :
          Count(matches, matches[m]) <= Count(prospects_list, matches[m].Prospect)
    /\ \A i \in DOMAIN scored :
          scored[i].norm # << >> /\ Normalized(prospects_list[scored[i].k]) # << >>
    /\ pc \in { "batches", "done" } =>
          find_candidates(<< >>, ngram_index, NGRAM_N) = { }

\* a record that shares several n-grams with the prospect and sits twice
\* in the registry column, next to a prospect whose normalized name is empty
C10_Witness ==
    /\ pc = "done"
    /\ Len(sf_list) = 2 /\ sf_list[1] = sf_list[2]
    /\ \E k \in DOMAIN prospects_list : Normalized(prospects_list[k]) = << >>
    /\ \E i \in DOMAIN scored :
          Cardinality(get_ngrams(scored[i].norm, NGRAM_N)
                      \cap get_ngrams(scored[i].candidate[2], NGRAM_N)) >= 2

====
